---- MODULE Spec2Model ----
(***************************************************************************)
(* A model of trackthis.py: the UPS and USPS tracking clients.  One call   *)
(* of a public entry point (chunk_list, track_ups or track_usps) is run    *)
(* from its arguments to its return value or to the exception it raises.   *)
(*                                                                         *)
(* Python values are represented as follows.                               *)
(*   - None, or a key that a dict does not hold: the empty tuple <<>>;     *)
(*     a present value x: the one-element tuple <<x>>  (None / Some).      *)
(*   - a JSON node that is either one object or a list of objects:         *)
(*     [kind |-> "dict" | "list", items |-> <<...>>]  (DictNode/ListNode). *)
(*   - text that the program formats (locations): a tuple of one-character *)
(*     strings, so that join and upper are computed character by character.*)
(***************************************************************************)
EXTENDS Integers, Sequences, FiniteSets, TLC

VARIABLES
  call,                   \* the entry point this run calls
  pc,                     \* position of the call
  chunk_size, whole_list, chunks,      \* chunk_list: arguments and return value
  tracking_list, simplify,             \* track_ups / track_usps: arguments
  requests,               \* ups_requests / usps_requests
  idx,                    \* the payload the fetch loop is at (1-based)
  session,                \* the aiohttp.ClientSession: "unopened", "open", "closed"
  inflight,               \* the payloads whose request is issued and not yet completed
  attempts,               \* attempts[p]: how many requests were issued for payload p
  tracking_results,       \* the fetcher's result list
  ups_failed,             \* _track_ups: identifiers the carrier faulted
  stdout,                 \* what print() has written
  sidx,                   \* _simplify_ups: the response the loop is at (1-based)
  overall_activity,       \* _simplify_ups: the local of that name (<<>>: unbound)
  stan_tracking_results,  \* the normalizer's result list
  result,                 \* the value the call returned
  served,                 \* track_ups: the kinds of shipment record the carrier holds
  caught,                 \* _track_usps: the exception its except clause caught ("" if none)
  faulted,                \* the payloads whose decoded body signalled a fault or error
  answered,               \* the identifiers the carrier answered with a well-formed record
  exc                     \* the exception the call raised ("" if none)

vars == << call, pc, chunk_size, whole_list, chunks, tracking_list, simplify,
           requests, idx, session, inflight, attempts, tracking_results,
           ups_failed, stdout, sidx, overall_activity, stan_tracking_results,
           result, served, caught, faulted, answered, exc >>

-----------------------------------------------------------------------------
(* Bounds of the model. *)

MaxLen == 4         \* chunk_list: longest whole_list
MaxChunk == 3       \* chunk_list: largest chunk_size
MaxTrack == 2       \* track_ups / track_usps: longest list of arbitrary identifiers
MaxBatch == 21      \* track_ups: longest list of like shipments (fail-rate runs)
MaxFaults == 2      \* track_ups: most payloads the carrier faults in one run
MaxLong == 21       \* track_usps: longest list spanning more than one chunk

-----------------------------------------------------------------------------
(* Python values. *)

None == << >>
Some(x) == << x >>
DictNode(x) == [kind |-> "dict", items |-> << x >>]
ListNode(s) == [kind |-> "list", items |-> s]

Min(a, b) == IF a < b THEN a ELSE b

\* s[a:b] for 0 <= a, 0 <= b: the elements at 0-based positions a .. b-1 that exist
Slice(s, a, b) == SubSeq(s, a + 1, Min(b, Len(s)))

RECURSIVE Range(_, _, _)
\* list(range(start, stop, step)) for step >= 1
Range(start, stop, step) ==
  IF start >= stop THEN << >>
  ELSE << start >> \o Range(start + step, stop, step)

-----------------------------------------------------------------------------
(* chunk_list (the same code in UPS and USPS). *)

\* (seeded fault) each slice one element short
chunk_list_short(k, l) ==
  LET starts == Range(0, Len(l), k)
  IN  [j \in 1..Len(starts) |-> Slice(l, starts[j], starts[j] + k - 1)]

chunk_list(k, l) ==
  LET starts == Range(0, Len(l), k)
  IN  [j \in 1..Len(starts) |-> Slice(l, starts[j], starts[j] + k)]

-----------------------------------------------------------------------------
(* Text: str.upper and str.join over tuples of characters. *)

LowerCase == << "a","b","c","d","e","f","g","h","i","j","k","l","m",
                "n","o","p","q","r","s","t","u","v","w","x","y","z" >>
UpperCase == << "A","B","C","D","E","F","G","H","I","J","K","L","M",
                "N","O","P","Q","R","S","T","U","V","W","X","Y","Z" >>

UpperChar(c) ==
  IF \E j \in 1..Len(LowerCase) : LowerCase[j] = c
  THEN UpperCase[CHOOSE j \in 1..Len(LowerCase) : LowerCase[j] = c]
  ELSE c

\* s.upper()
upper(s) == [j \in 1..Len(s) |-> UpperChar(s[j])]

RECURSIVE join(_, _)
\* sep.join(parts)
join(sep, parts) ==
  IF parts = << >> THEN << >>
  ELSE IF Len(parts) = 1 THEN parts[1]
  ELSE parts[1] \o sep \o join(sep, Tail(parts))

CommaSpace == << ",", " " >>
Placeholder == << "-", "-", "-" >>                    \* the default "---"
Louisville == << "L","o","u","i","s","v","i","l","l","e" >>
KY == << "K","Y" >>
NV == << "n","v" >>
US == << "U","S" >>

-----------------------------------------------------------------------------
(* Status Vocabulary. *)

ups_status_codes ==
     "X"  :> [general_status |-> "Exception",        ups_status |-> "Exception",                    status_rank |-> 9]
  @@ "RS" :> [general_status |-> "Return to Sender", ups_status |-> "Returned to Shipper",          status_rank |-> 8]
  @@ "NA" :> [general_status |-> "Not Available",    ups_status |-> "Not Available",                status_rank |-> 7]
  @@ "MV" :> [general_status |-> "Cancelled",        ups_status |-> "Billing Information Voided",   status_rank |-> 6]
  @@ "M"  :> [general_status |-> "Pre-Shipment",     ups_status |-> "Billing Information Received", status_rank |-> 5]
  @@ "P"  :> [general_status |-> "In Transit",       ups_status |-> "Pickup",                       status_rank |-> 4]
  @@ "I"  :> [general_status |-> "In Transit",       ups_status |-> "In Transit",                   status_rank |-> 3]
  @@ "O"  :> [general_status |-> "Out for Delivery", ups_status |-> "Out for Delivery",             status_rank |-> 2]
  @@ "D"  :> [general_status |-> "Delivered",        ups_status |-> "Delivered",                    status_rank |-> 1]

usps_status_codes ==
     "Delivered"            :> "Delivered"
  @@ "Delivered to Agent"   :> "Delivered"
  @@ "Alert"                :> "Exception"
  @@ "In Transit"           :> "In Transit"
  @@ "Out for Delivery"     :> "Out for Delivery"
  @@ "Pre-Shipment"         :> "Pre-Shipment"
  @@ "Delivery Attempt"     :> "Delivered - Delivery Attempt"
  @@ "Available for Pickup" :> "Delivered - Available for Pickup"

-----------------------------------------------------------------------------
(* datetime.strptime on the date texts the carriers of this model send:    *)
(* [ok |-> TRUE, value |-> timestamp], or [ok |-> FALSE] for ValueError.   *)

Timestamp(y, mo, d, h, mi, s) ==
  [year |-> y, month |-> mo, day |-> d, hour |-> h, minute |-> mi, second |-> s]

\* datetime.strptime(text, "%Y%m%d%H%M%S")
strptime_ups(text) ==
  IF text = "20240101093000" THEN [ok |-> TRUE, value |-> Timestamp(2024, 1, 1, 9, 30, 0)]
  ELSE IF text = "20231231235959" THEN [ok |-> TRUE, value |-> Timestamp(2023, 12, 31, 23, 59, 59)]
  ELSE [ok |-> FALSE]

\* datetime.strptime(text, "%B %d, %Y %I:%M %p")
strptime_usps(text) ==
  IF text = "January 1, 2024 09:30 AM" THEN [ok |-> TRUE, value |-> Timestamp(2024, 1, 1, 9, 30, 0)]
  ELSE IF text = "December 31, 2023 11:59 PM" THEN [ok |-> TRUE, value |-> Timestamp(2023, 12, 31, 23, 59, 0)]
  ELSE [ok |-> FALSE]

-----------------------------------------------------------------------------
(* Carrier A (UPS): what the endpoint may answer to the request for one    *)
(* identifier.  The program reads these fields of the decoded body:        *)
(*   Fault; TrackResponse.Shipment.InquiryNumber.Value (InquiryNumber);    *)
(*   TrackResponse.Shipment.Package (one package or a list), and of each   *)
(*   package Activity (one activity or a list), and of each activity       *)
(*   Status.Type (Type), Status.Description (Description), Date, Time,     *)
(*   ActivityLocation.Address (Address) with City, StateProvinceCode and   *)
(*   CountryCode.                                                          *)

UpsIds == { "1ZA", "1ZB" }

Address(city, state, country) ==
  Some([City |-> city, StateProvinceCode |-> state, CountryCode |-> country])

AddrFull == Address(Some(Louisville), Some(KY), Some(US))
AddrNoCity == Address(None, Some(NV), Some(US))

Activity(type, description, date, time, address) ==
  [Type |-> type, Description |-> description, Date |-> date, Time |-> time,
   Address |-> address]

Act(type, description, address) ==
  Activity(type, description, "20240101", "093000", address)

Package(activity) == [Activity |-> activity]

UpsShapes ==
  { "one", "actlist", "ranks397", "tie55", "unknowns", "unknown1", "noaddr", "baddate" }

\* the shapes whose package/activity structure and date are well formed
UpsWellFormed == UpsShapes \ { "baddate" }

UpsPackageOf(shape) ==
  CASE shape = "one" ->
         DictNode(Package(DictNode(Act("D", "DELIVERED", AddrFull))))
    [] shape = "actlist" ->
         DictNode(Package(ListNode(<< Act("I", "Arrived at Facility", AddrNoCity),
                                      Act("P", "Pickup Scan", AddrFull) >>)))
    [] shape = "ranks397" ->
         ListNode(<< Package(ListNode(<< Act("I", "box 1 in transit", AddrFull),
                                         Act("X", "box 1 old exception", AddrFull) >>)),
                     Package(DictNode(Act("X", "box 2 exception", AddrNoCity))),
                     Package(DictNode(Act("NA", "box 3 not available", None))) >>)
    [] shape = "tie55" ->
         ListNode(<< Package(DictNode(Act("M", "box 1 billing received", AddrFull))),
                     Package(DictNode(Act("M", "box 2 billing received", None))) >>)
    [] shape = "unknowns" ->
         ListNode(<< Package(DictNode(Act("Z", "box 1 unlisted code", AddrFull))),
                     Package(DictNode(Act("ZZ", "box 2 unlisted code", None))) >>)
    [] shape = "unknown1" ->
         DictNode(Package(DictNode(Act("Z", "unlisted code", AddrFull))))
    [] shape = "noaddr" ->
         DictNode(Package(DictNode(Act("O", "Out For Delivery Today", None))))
    [] shape = "baddate" ->
         DictNode(Package(DictNode(Activity("D", "DELIVERED", "", "093000", AddrFull))))

\* (shape is a label of the model, not a field the program reads)
UpsBody(id, shape) ==
  [Fault |-> None, InquiryNumber |-> Some(id), shape |-> shape,
   Package |-> UpsPackageOf(shape)]

UpsFault(id) ==
  [Fault |-> Some("Hard"), InquiryNumber |-> None, shape |-> "fault", Package |-> None]

-----------------------------------------------------------------------------
(* UPS._simplify_ups: the body of the loop over the responses. *)

StatusRank(code) ==
  IF code \in DOMAIN ups_status_codes THEN ups_status_codes[code].status_rank ELSE 0

\* "latest_activity": tracking_activity[0] of a list, the activity itself otherwise
LatestOf(node) == node.items[1]

RECURSIVE PickOverall(_, _, _)
\* the loop over package_data: the (overall_rank, overall_activity) it ends with
PickOverall(packages, overall_rank, overall) ==
  IF packages = << >> THEN [rank |-> overall_rank, activity |-> overall]
  ELSE LET latest_activity == LatestOf(Head(packages).Activity)
           status_rank == StatusRank(latest_activity.Type)
       IN  IF status_rank > overall_rank
           THEN PickOverall(Tail(packages), status_rank, Some(DictNode(latest_activity)))
           ELSE PickOverall(Tail(packages), overall_rank, overall)

\* overall_activity after the if/else on type(package_data), from its value before
OverallActivity(resp, overall) ==
  IF resp.Package.kind = "list"
  THEN PickOverall(resp.Package.items, 0, overall).activity
  ELSE Some(resp.Package.items[1].Activity)

\* the try/except around the activity location
LocationUps(package_activity) ==
  IF package_activity.Address = None THEN None
  ELSE LET activity_location == package_activity.Address[1]
           city == IF activity_location.City = None THEN Placeholder
                   ELSE activity_location.City[1]
           state_province_code ==
                   IF activity_location.StateProvinceCode = None THEN Placeholder
                   ELSE activity_location.StateProvinceCode[1]
           country_code ==
                   IF activity_location.CountryCode = None THEN Placeholder
                   ELSE activity_location.CountryCode[1]
       IN  Some(upper(join(CommaSpace, << country_code, state_province_code, city >>)))

\* self.ups_status_codes[ups_code].get("general_status", "Unknown"):
\* the subscript raises KeyError for a code the table does not hold
StatusUps(ups_code) ==
  IF ups_code \in DOMAIN ups_status_codes
  THEN [exc |-> "", value |-> Some(ups_status_codes[ups_code].general_status)]
  ELSE [exc |-> "KeyError", value |-> None]

\* One pass of the loop body for resp, entered with the local overall_activity
\* as the previous pass left it: the exception raised ("" if none), the record
\* appended and overall_activity afterwards.
SimplifyUpsOne(resp, overall) ==
  LET after == OverallActivity(resp, overall)
  IN  IF after = None
      THEN [exc |-> "UnboundLocalError", record |-> None, overall |-> after]
      ELSE LET package_activity == LatestOf(after[1])
               parsed == strptime_ups(package_activity.Date \o package_activity.Time)
               status == StatusUps(package_activity.Type)
           IN  IF ~parsed.ok
               THEN [exc |-> "ValueError", record |-> None, overall |-> after]
               ELSE IF status.exc # ""
               THEN [exc |-> status.exc, record |-> None, overall |-> after]
               ELSE [exc |-> "",
                     record |-> Some(
                       [checkpointDate |-> Some(parsed.value),
                        trackingNumber |-> resp.InquiryNumber,
                        checkpointLocation |-> LocationUps(package_activity),
                        trackingStatus |-> status.value,
                        checkpointStatusMessage |-> Some(package_activity.Description)]),
                     overall |-> after]

-----------------------------------------------------------------------------
(* The state before a call. *)

SeqsUpTo(S, n) == UNION { [1..m -> S] : m \in 0..n }

Idle ==
  /\ pc = "call"
  /\ requests = << >>
  /\ idx = 1
  /\ session = "unopened"
  /\ inflight = {}
  /\ caught = ""
  /\ faulted = {}
  /\ answered = << >>
  /\ attempts = << >>
  /\ tracking_results = << >>
  /\ ups_failed = << >>
  /\ stdout = << >>
  /\ sidx = 1
  /\ overall_activity = None
  /\ stan_tracking_results = << >>
  /\ result = None
  /\ exc = ""

InitChunk ==
  /\ call = "chunk_list"
  /\ chunk_size \in 1..MaxChunk
  /\ whole_list \in SeqsUpTo({"a", "b"}, MaxLen)
  /\ chunks = None
  /\ tracking_list = << >>
  /\ simplify = TRUE
  /\ served = {}
  /\ Idle

\* track_ups on a short list of any shipments, or on a longer list of shipments
\* that each have one package with one activity
InitUps ==
  /\ call = "track_ups"
  /\ \/ /\ tracking_list \in SeqsUpTo(UpsIds, MaxTrack)
        /\ served = UpsShapes
        /\ simplify \in BOOLEAN
     \/ /\ tracking_list \in { [j \in 1..n |-> "1ZA"] : n \in (MaxTrack + 1)..MaxBatch }
        /\ served = { "one" }
        /\ simplify = FALSE
  /\ chunk_size = 0
  /\ whole_list = << >>
  /\ chunks = None
  /\ Idle

-----------------------------------------------------------------------------
(* chunk_list as a call. *)

ChunkList ==
  /\ call = "chunk_list"
  /\ pc = "call"
  /\ chunks' = Some(chunk_list(chunk_size, whole_list))
  /\ pc' = "returned"
  /\ UNCHANGED << caught, faulted, answered >>
  /\ UNCHANGED << call, chunk_size, whole_list, tracking_list, simplify, requests,
                  idx, session, inflight, attempts, tracking_results, ups_failed,
                  stdout, sidx, overall_activity, stan_tracking_results, result,
                  served, exc >>

-----------------------------------------------------------------------------
(* UPS.track_ups, with _create_ups_request, _track_ups and _simplify_ups. *)

\* the payload of one identifier: of its fields the model keeps InquiryNumber
_create_ups_request(list) ==
  [j \in 1..Len(list) |-> [InquiryNumber |-> list[j]]]

\* fail_rate > 0.05 for fail_rate = failed / total, total >= 1.  failed/total and
\* 0.05 are both correctly rounded doubles, so the comparison of the doubles
\* agrees with that of the fractions: failed/total > 1/20.
FailRateWarns(failed, total) == 20 * failed > total

Warning(failed, total) == [kind |-> "warning", failed |-> failed, total |-> total]

TrackUps ==
  /\ call = "track_ups"
  /\ pc = "call"
  /\ requests' = _create_ups_request(tracking_list)
  /\ attempts' = [j \in 1..Len(tracking_list) |-> 0]
  /\ tracking_results' = << >>
  /\ ups_failed' = << >>
  /\ pc' = "enter"
  /\ UNCHANGED << caught, faulted, answered >>
  /\ UNCHANGED << call, chunk_size, whole_list, chunks, tracking_list, simplify,
                  idx, session, inflight, stdout, sidx, overall_activity,
                  stan_tracking_results, result, served, exc >>

\* async with aiohttp.ClientSession() as session
UpsOpenSession ==
  /\ call = "track_ups"
  /\ pc = "enter"
  /\ session' = "open"
  /\ pc' = "loop"
  /\ UNCHANGED << caught, faulted, answered >>
  /\ UNCHANGED << call, chunk_size, whole_list, chunks, tracking_list, simplify,
                  requests, idx, inflight, attempts, tracking_results, ups_failed,
                  stdout, sidx, overall_activity, stan_tracking_results, result,
                  served, exc >>

\* session.get(url, json=request_data) for the next payload
UpsRequest ==
  /\ call = "track_ups"
  /\ pc = "loop"
  /\ idx <= Len(requests)
  /\ inflight' = inflight \cup { idx }
  /\ attempts' = [attempts EXCEPT ![idx] = @ + 1]
  /\ pc' = "await"
  /\ UNCHANGED << caught, faulted, answered >>
  /\ UNCHANGED << call, chunk_size, whole_list, chunks, tracking_list, simplify,
                  requests, idx, session, tracking_results, ups_failed, stdout,
                  sidx, overall_activity, stan_tracking_results, result, served, exc >>

\* (seeded fault) the faulted response is kept among the results
UpsReceiveFaultKept ==
  /\ call = "track_ups"
  /\ pc = "await"
  /\ Cardinality(faulted) < MaxFaults
  /\ ups_failed' = Append(ups_failed, requests[idx].InquiryNumber)
  /\ tracking_results' = Append(tracking_results, UpsFault(requests[idx].InquiryNumber))
  /\ faulted' = faulted \cup { idx }
  /\ inflight' = inflight \ { idx }
  /\ idx' = idx + 1
  /\ pc' = "loop"
  /\ UNCHANGED << caught, answered >>
  /\ UNCHANGED << call, chunk_size, whole_list, chunks, tracking_list, simplify,
                  requests, session, attempts, stdout, sidx,
                  overall_activity, stan_tracking_results, result, served, exc >>

\* the decoded body holds "Fault"
UpsReceiveFault ==
  /\ call = "track_ups"
  /\ pc = "await"
  /\ Cardinality(faulted) < MaxFaults
  /\ ups_failed' = Append(ups_failed, requests[idx].InquiryNumber)
  /\ faulted' = faulted \cup { idx }
  /\ inflight' = inflight \ { idx }
  /\ idx' = idx + 1
  /\ pc' = "loop"
  /\ UNCHANGED << caught, answered >>
  /\ UNCHANGED << call, chunk_size, whole_list, chunks, tracking_list, simplify,
                  requests, session, attempts, tracking_results, stdout, sidx,
                  overall_activity, stan_tracking_results, result, served, exc >>

\* the decoded body holds no "Fault"
UpsReceiveBody ==
  /\ call = "track_ups"
  /\ pc = "await"
  /\ \E shape \in served :
       /\ tracking_results' =
            Append(tracking_results, UpsBody(requests[idx].InquiryNumber, shape))
       /\ answered' = IF shape \in UpsWellFormed
                      THEN Append(answered, requests[idx].InquiryNumber)
                      ELSE answered
  /\ inflight' = inflight \ { idx }
  /\ idx' = idx + 1
  /\ pc' = "loop"
  /\ UNCHANGED << caught, faulted >>
  /\ UNCHANGED << call, chunk_size, whole_list, chunks, tracking_list, simplify,
                  requests, session, attempts, ups_failed, stdout, sidx,
                  overall_activity, stan_tracking_results, result, served, exc >>

\* (seeded fault) the exception leaves the session open
UpsTransportErrorLeak ==
  /\ call = "track_ups"
  /\ pc = "await"
  /\ inflight' = inflight \ { idx }
  /\ exc' = "ClientError"
  /\ pc' = "raised"
  /\ UNCHANGED << caught, faulted, answered >>
  /\ UNCHANGED << call, chunk_size, whole_list, chunks, tracking_list, simplify,
                  requests, idx, attempts, tracking_results, ups_failed, stdout,
                  sidx, overall_activity, stan_tracking_results, result, served,
                  session >>

\* session.get or resp.json() raises: nothing catches it, the async with
\* blocks close the session on the way out and asyncio.run re-raises
UpsTransportError ==
  /\ call = "track_ups"
  /\ pc = "await"
  /\ inflight' = inflight \ { idx }
  /\ session' = "closed"
  /\ exc' = "ClientError"
  /\ pc' = "raised"
  /\ UNCHANGED << caught, faulted, answered >>
  /\ UNCHANGED << call, chunk_size, whole_list, chunks, tracking_list, simplify,
                  requests, idx, attempts, tracking_results, ups_failed, stdout,
                  sidx, overall_activity, stan_tracking_results, result, served >>

\* after the loop: fail_rate, the warning, return tracking_results
UpsLoopEnd ==
  /\ call = "track_ups"
  /\ pc = "loop"
  /\ idx > Len(requests)
  /\ session' = "closed"
  /\ IF Len(requests) = 0
     THEN /\ exc' = "ZeroDivisionError"
          /\ pc' = "raised"
          /\ UNCHANGED stdout
     ELSE /\ stdout' = IF FailRateWarns(Len(ups_failed), Len(requests))
                       THEN Append(stdout, Warning(Len(ups_failed), Len(requests)))
                       ELSE stdout
          /\ pc' = "fetched"
          /\ UNCHANGED exc
  /\ UNCHANGED << caught, faulted, answered >>
  /\ UNCHANGED << call, chunk_size, whole_list, chunks, tracking_list, simplify,
                  requests, idx, inflight, attempts, tracking_results, ups_failed,
                  sidx, overall_activity, stan_tracking_results, result, served >>

\* simplify is not True: return tracking_results
TrackUpsRaw ==
  /\ call = "track_ups"
  /\ pc = "fetched"
  /\ ~simplify
  /\ result' = Some(tracking_results)
  /\ pc' = "returned"
  /\ UNCHANGED << caught, faulted, answered >>
  /\ UNCHANGED << call, chunk_size, whole_list, chunks, tracking_list, simplify,
                  requests, idx, session, inflight, attempts, tracking_results,
                  ups_failed, stdout, sidx, overall_activity,
                  stan_tracking_results, served, exc >>

\* _simplify_ups: one pass of the loop over tracking_results
SimplifyUpsStep ==
  /\ call = "track_ups"
  /\ pc = "fetched"
  /\ simplify
  /\ sidx <= Len(tracking_results)
  /\ LET one == SimplifyUpsOne(tracking_results[sidx], overall_activity)
     IN  /\ overall_activity' = one.overall
         /\ IF one.exc # ""
            THEN /\ exc' = one.exc
                 /\ pc' = "raised"
                 /\ UNCHANGED << sidx, stan_tracking_results >>
            ELSE /\ stan_tracking_results' = Append(stan_tracking_results, one.record[1])
                 /\ sidx' = sidx + 1
                 /\ UNCHANGED << pc, exc >>
  /\ UNCHANGED << caught, faulted, answered >>
  /\ UNCHANGED << call, chunk_size, whole_list, chunks, tracking_list, simplify,
                  requests, idx, session, inflight, attempts, tracking_results,
                  ups_failed, stdout, result, served >>

\* _simplify_ups returns stan_tracking_results, and track_ups returns it
SimplifyUpsReturn ==
  /\ call = "track_ups"
  /\ pc = "fetched"
  /\ simplify
  /\ sidx > Len(tracking_results)
  /\ result' = Some(stan_tracking_results)
  /\ pc' = "returned"
  /\ UNCHANGED << caught, faulted, answered >>
  /\ UNCHANGED << call, chunk_size, whole_list, chunks, tracking_list, simplify,
                  requests, idx, session, inflight, attempts, tracking_results,
                  ups_failed, stdout, sidx, overall_activity,
                  stan_tracking_results, served, exc >>

-----------------------------------------------------------------------------
(* Carrier B (USPS): what the endpoint may answer to the request for one   *)
(* chunk of identifiers, as XML documents, and xmltodict's decoding.       *)
(* A TrackInfo element has the attribute ID and the children TrackSummary  *)
(* (with EventTime, EventDate, EventCity, EventState), Status,             *)
(* StatusCategory, StatusSummary, or the child Error.                      *)

ChunkSize == 10

UspsIds == { "94A", "94B", "94C" }

TrackInfo(id, summary, status, category, status_summary, error) ==
  [kind |-> "mapping", ID |-> Some(id), TrackSummary |-> summary, Status |-> status,
   StatusCategory |-> category, StatusSummary |-> status_summary, Error |-> error]

\* the carrier's record of each identifier
UspsEntry(id) ==
  CASE id = "94A" ->
         TrackInfo(id, Some([EventTime |-> Some("09:30 AM"),
                             EventDate |-> Some("January 1, 2024"),
                             EventCity |-> Some(Louisville), EventState |-> Some(KY)]),
                   Some("Delivered, In/At Mailbox"), Some("Delivered"),
                   Some("Your item was delivered."), None)
    [] id = "94B" ->
         TrackInfo(id, Some([EventTime |-> None,
                             EventDate |-> Some("December 31, 2023"),
                             EventCity |-> None, EventState |-> Some(NV)]),
                   Some("Seized by Law Enforcement"), Some("Seized"), None, None)
    [] id = "94C" ->
         TrackInfo(id, None, None, None, None, Some("A status update is not yet available"))

RECURSIVE Dedup(_)
\* the identifiers of a chunk, each once, in the order of their first occurrence
Dedup(ids) ==
  IF ids = << >> THEN << >>
  ELSE LET rest == Dedup(SubSeq(ids, 1, Len(ids) - 1))
           last == ids[Len(ids)]
       IN  IF \E j \in 1..Len(rest) : rest[j] = last THEN rest ELSE Append(rest, last)

RECURSIVE WellFormedIds(_)
\* the identifiers of the TrackInfo elements that hold no Error
WellFormedIds(entries) ==
  IF entries = << >> THEN << >>
  ELSE IF Head(entries).Error = None
       THEN << Head(entries).ID[1] >> \o WellFormedIds(Tail(entries))
       ELSE WellFormedIds(Tail(entries))

RECURSIVE EntriesFor(_, _)
EntriesFor(ids, found) ==
  IF ids = << >> THEN << >>
  ELSE IF Head(ids) \in found
       THEN << UspsEntry(Head(ids)) >> \o EntriesFor(Tail(ids), found)
       ELSE EntriesFor(Tail(ids), found)

\* The documents the carrier may send for a payload: a TrackResponse holding the
\* TrackInfo of some of the payload's identifiers, an Error document (the
\* request as a whole was refused), or text that is not XML.
UspsDocuments(payload) ==
  { [root |-> "TrackResponse", TrackInfo |-> EntriesFor(Dedup(payload.ids), found)] :
      found \in SUBSET { payload.ids[j] : j \in 1..Len(payload.ids) } }
  \cup { [root |-> "Error", TrackInfo |-> << >>],
         [root |-> "malformed", TrackInfo |-> << >>] }

\* json.loads(json.dumps(xmltodict.parse(xml_resp))).get("TrackResponse").get("TrackInfo"):
\* xmltodict turns a child element that occurs once into a mapping and one that
\* occurs several times into a list of mappings; an element without children is
\* None.  [exc |-> the exception raised or "", node |-> the value of json_resp]
DecodeTrackInfo(doc) ==
  IF doc.root = "malformed" THEN [exc |-> "ExpatError", node |-> None]
  ELSE IF doc.root # "TrackResponse" THEN [exc |-> "AttributeError", node |-> None]
  ELSE IF Len(doc.TrackInfo) = 0 THEN [exc |-> "AttributeError", node |-> None]
  ELSE IF Len(doc.TrackInfo) = 1 THEN [exc |-> "", node |-> Some(DictNode(doc.TrackInfo[1]))]
  ELSE [exc |-> "", node |-> Some(ListNode(doc.TrackInfo))]

Str(text) == [kind |-> "str", value |-> text]

\* list(entry): the keys of the mapping, the attribute first, then the children
\* in document order
KeysOf(entry) ==
  << Str("@ID") >>
  \o (IF entry.TrackSummary # None THEN << Str("TrackSummary") >> ELSE << >>)
  \o (IF entry.Status # None THEN << Str("Status") >> ELSE << >>)
  \o (IF entry.StatusCategory # None THEN << Str("StatusCategory") >> ELSE << >>)
  \o (IF entry.StatusSummary # None THEN << Str("StatusSummary") >> ELSE << >>)
  \o (IF entry.Error # None THEN << Str("Error") >> ELSE << >>)

\* tracking_results.extend(json_resp): the elements of a list, the keys of a mapping
Extend(list, node) ==
  IF node.kind = "list" THEN list \o node.items ELSE list \o KeysOf(node.items[1])

-----------------------------------------------------------------------------
(* USPS._simplify_usps. *)

\* the try/except around the checkpoint date
DateUsps(i) ==
  IF i.TrackSummary = None THEN None
  ELSE LET track_summary == i.TrackSummary[1]
       IN  IF track_summary.EventTime = None \/ track_summary.EventDate = None THEN None
           ELSE LET parsed == strptime_usps(track_summary.EventDate[1] \o " "
                                            \o track_summary.EventTime[1])
                IN  IF parsed.ok THEN Some(parsed.value) ELSE None

\* the try/except around the checkpoint location
LocationUsps(i) ==
  IF i.TrackSummary = None THEN None
  ELSE LET track_summary == i.TrackSummary[1]
       IN  IF track_summary.EventCity = None \/ track_summary.EventState = None THEN None
           ELSE Some(join(CommaSpace, << upper(track_summary.EventCity[1]),
                                         upper(track_summary.EventState[1]), US >>))

\* the try/except around the status message
MessageUsps(i) ==
  IF i.Status = None \/ i.StatusSummary = None THEN None
  ELSE Some(i.Status[1] \o " - " \o i.StatusSummary[1])

\* self.usps_status_codes.get(i.get("StatusCategory"))
StatusUsps(i) ==
  IF i.StatusCategory # None /\ i.StatusCategory[1] \in DOMAIN usps_status_codes
  THEN Some(usps_status_codes[i.StatusCategory[1]])
  ELSE None

\* the record of one element that has .get
SimplifyUspsOne(i) ==
  [trackingNumber |-> i.ID,
   trackingStatus |-> StatusUsps(i),
   checkpointDate |-> DateUsps(i),
   checkpointLocation |-> LocationUsps(i),
   checkpointStatusMessage |-> MessageUsps(i)]

RECURSIVE _simplify_usps(_)
\* an element without .get (a str) raises in the first try and is skipped
_simplify_usps(results) ==
  IF results = << >> THEN << >>
  ELSE IF Head(results).kind # "mapping" THEN _simplify_usps(Tail(results))
  ELSE << SimplifyUspsOne(Head(results)) >> \o _simplify_usps(Tail(results))

-----------------------------------------------------------------------------
(* USPS.track_usps, with _create_usps_requests and _track_usps. *)

\* the payload of one chunk: of the URL the model keeps the identifiers
_create_usps_requests(tracking_chunks) ==
  [j \in 1..Len(tracking_chunks) |-> [ids |-> tracking_chunks[j]]]

Failed(request) == [kind |-> "failed", request |-> request]

UspsIdCycle == << "94A", "94B", "94C" >>
LongList(n) == [j \in 1..n |-> UspsIdCycle[((j - 1) % Len(UspsIdCycle)) + 1]]

\* track_usps on a short list of any identifiers, or on a list of more than one chunk
InitUsps ==
  /\ call = "track_usps"
  /\ tracking_list \in SeqsUpTo(UspsIds, MaxTrack)
                         \cup { LongList(n) : n \in ChunkSize..MaxLong }
  /\ simplify \in BOOLEAN
  /\ served = {}
  /\ chunk_size = 0
  /\ whole_list = << >>
  /\ chunks = None
  /\ Idle

TrackUsps ==
  /\ call = "track_usps"
  /\ pc = "call"
  /\ requests' = _create_usps_requests(chunk_list(ChunkSize, tracking_list))
  /\ attempts' = [j \in 1..Len(requests') |-> 0]
  /\ pc' = "enter"
  /\ UNCHANGED << caught, faulted, answered >>
  /\ UNCHANGED << call, chunk_size, whole_list, chunks, tracking_list, simplify,
                  idx, session, inflight, tracking_results, ups_failed, stdout, sidx,
                  overall_activity, stan_tracking_results, result, served, exc >>

\* async with aiohttp.ClientSession() as session: tracking_results = []
UspsOpenSession ==
  /\ call = "track_usps"
  /\ pc = "enter"
  /\ session' = "open"
  /\ tracking_results' = << >>
  /\ pc' = "loop"
  /\ UNCHANGED << caught, faulted, answered >>
  /\ UNCHANGED << call, chunk_size, whole_list, chunks, tracking_list, simplify,
                  requests, idx, inflight, attempts, ups_failed, stdout, sidx,
                  overall_activity, stan_tracking_results, result, served, exc >>

\* session.get(usps_requests[request_data]) for the next payload
UspsRequest ==
  /\ call = "track_usps"
  /\ pc = "loop"
  /\ idx <= Len(requests)
  /\ inflight' = inflight \cup { idx }
  /\ attempts' = [attempts EXCEPT ![idx] = @ + 1]
  /\ pc' = "await"
  /\ UNCHANGED << caught, faulted, answered >>
  /\ UNCHANGED << call, chunk_size, whole_list, chunks, tracking_list, simplify,
                  requests, idx, session, tracking_results, ups_failed, stdout,
                  sidx, overall_activity, stan_tracking_results, result, served, exc >>

\* (seeded fault) the except clause sits inside the loop: the loop goes on
UspsExceptResume(e) ==
  /\ caught' = e
  /\ stdout' = Append(stdout, Failed(requests[idx]))
  /\ inflight' = inflight \ { idx }
  /\ idx' = idx + 1
  /\ pc' = "loop"
  /\ UNCHANGED << session, tracking_results >>

\* the except clause: print the payload in flight, return tracking_results
UspsExcept(e) ==
  /\ caught' = e
  /\ stdout' = Append(stdout, Failed(requests[idx]))
  /\ inflight' = inflight \ { idx }
  /\ session' = "closed"
  /\ pc' = "fetched"
  /\ UNCHANGED << idx, tracking_results >>

\* the response text arrives and is decoded
UspsReceive ==
  /\ call = "track_usps"
  /\ pc = "await"
  /\ \E doc \in UspsDocuments(requests[idx]) :
       LET json_resp == DecodeTrackInfo(doc)
       IN  /\ faulted' = IF doc.root = "Error" THEN faulted \cup { idx } ELSE faulted
           /\ IF json_resp.exc # ""
              THEN UspsExcept(json_resp.exc) /\ UNCHANGED answered
              ELSE /\ tracking_results' = Extend(tracking_results, json_resp.node[1])
                   /\ answered' = answered \o WellFormedIds(doc.TrackInfo)
                   /\ inflight' = inflight \ { idx }
                   /\ idx' = idx + 1
                   /\ pc' = "loop"
                   /\ UNCHANGED << session, stdout, caught >>
  /\ UNCHANGED << call, chunk_size, whole_list, chunks, tracking_list, simplify,
                  requests, attempts, ups_failed, sidx, overall_activity,
                  stan_tracking_results, result, served, exc >>

\* session.get or resp.text() raises
UspsTransportError ==
  /\ call = "track_usps"
  /\ pc = "await"
  /\ UspsExcept("ClientError")
  /\ UNCHANGED << faulted, answered >>
  /\ UNCHANGED << call, chunk_size, whole_list, chunks, tracking_list, simplify,
                  requests, attempts, ups_failed, sidx, overall_activity,
                  stan_tracking_results, result, served, exc >>

\* after the loop: return tracking_results
UspsLoopEnd ==
  /\ call = "track_usps"
  /\ pc = "loop"
  /\ idx > Len(requests)
  /\ session' = "closed"
  /\ pc' = "fetched"
  /\ UNCHANGED << caught, faulted, answered >>
  /\ UNCHANGED << call, chunk_size, whole_list, chunks, tracking_list, simplify,
                  requests, idx, inflight, attempts, tracking_results, ups_failed,
                  stdout, sidx, overall_activity, stan_tracking_results, result,
                  served, exc >>

\* simplify is not True: return tracking_results
TrackUspsRaw ==
  /\ call = "track_usps"
  /\ pc = "fetched"
  /\ ~simplify
  /\ result' = Some(tracking_results)
  /\ pc' = "returned"
  /\ UNCHANGED << caught, faulted, answered >>
  /\ UNCHANGED << call, chunk_size, whole_list, chunks, tracking_list, simplify,
                  requests, idx, session, inflight, attempts, tracking_results,
                  ups_failed, stdout, sidx, overall_activity,
                  stan_tracking_results, served, exc >>

\* simplify is True: return self._simplify_usps(tracking_results)
TrackUspsSimplify ==
  /\ call = "track_usps"
  /\ pc = "fetched"
  /\ simplify
  /\ stan_tracking_results' = _simplify_usps(tracking_results)
  /\ result' = Some(stan_tracking_results')
  /\ pc' = "returned"
  /\ UNCHANGED << caught, faulted, answered >>
  /\ UNCHANGED << call, chunk_size, whole_list, chunks, tracking_list, simplify,
                  requests, idx, session, inflight, attempts, tracking_results,
                  ups_failed, stdout, sidx, overall_activity, served, exc >>

-----------------------------------------------------------------------------

Init == InitChunk \/ InitUps \/ InitUsps

Next ==
  \/ ChunkList
  \/ TrackUps \/ UpsOpenSession \/ UpsRequest \/ UpsReceiveFault \/ UpsReceiveBody
  \/ UpsTransportError \/ UpsLoopEnd \/ TrackUpsRaw \/ SimplifyUpsStep
  \/ SimplifyUpsReturn
  \/ TrackUsps \/ UspsOpenSession \/ UspsRequest \/ UspsReceive \/ UspsTransportError
  \/ UspsLoopEnd \/ TrackUspsRaw \/ TrackUspsSimplify

Spec == Init /\ [][Next]_vars

-----------------------------------------------------------------------------
(* Helpers of the properties. *)

RECURSIVE Concat(_)
\* the lists of a list, one after the other
Concat(ss) == IF ss = << >> THEN << >> ELSE Head(ss) \o Concat(Tail(ss))

CeilDiv(n, k) == (n + k - 1) \div k

\* chunks is the split of list into pieces of size k that the documentation of
\* chunk_list describes
IsChunking(cs, k, list) ==
  LET n == Len(list)
  IN  /\ Len(cs) = CeilDiv(n, k)
      /\ \A j \in 1..Len(cs) :
           /\ Len(cs[j]) = IF j < Len(cs) \/ n % k = 0 THEN k ELSE n % k
           /\ Len(cs[j]) >= 1
      /\ Concat(cs) = list

Returned == pc = "returned"

-----------------------------------------------------------------------------
\* C7: chunk_list(k, list) for k >= 1 returns ceil(n/k) chunks, each of length k
\* except possibly the last (n mod k when that is not 0), none of them empty,
\* and the chunks concatenated in order are the list.  Checked on the calls of
\* chunk_list with any k, and on the chunks of size 10 that track_usps makes
\* its payloads from.
C7_Chunking ==
  /\ (call = "chunk_list" /\ Returned) => IsChunking(chunks[1], chunk_size, whole_list)
  /\ (call = "track_usps" /\ pc # "call") =>
        IsChunking([j \in 1..Len(requests) |-> requests[j].ids], ChunkSize, tracking_list)

C7_Witness ==
  /\ call = "chunk_list" /\ Returned
  /\ Len(whole_list) % chunk_size # 0
  /\ Len(chunks[1]) >= 2
  /\ chunk_size >= 2

-----------------------------------------------------------------------------
\* the payloads 1..n that are (keep = TRUE) or are not (keep = FALSE) faulted,
\* in order
PayloadsBy(n, keep) ==
  SelectSeq([p \in 1..n |-> p], LAMBDA p : (p \in faulted) = keep)

\* _track_ups: the two lists hold the faulted and the other payloads processed
\* so far
UpsListsMatch ==
  LET bad == PayloadsBy(idx - 1, TRUE)
      good == PayloadsBy(idx - 1, FALSE)
  IN  /\ faulted \subseteq 1..(idx - 1)
      /\ ups_failed = [j \in 1..Len(bad) |-> requests[bad[j]].InquiryNumber]
      /\ Len(tracking_results) = Len(good)
      /\ \A j \in 1..Len(good) :
           /\ tracking_results[j].Fault = None
           /\ tracking_results[j].InquiryNumber = Some(requests[good[j]].InquiryNumber)

AllRequestedOnce == \A p \in 1..Len(requests) : attempts[p] = 1

FetchEnded == pc \in { "fetched", "returned" }

\* C2 (as amended): in _track_ups a fault in the decoded body of payload i puts
\* its identifier on ups_failed and nothing on the result list, and the loop
\* goes on with the session open; when the fetch ends without a transport
\* exception every payload was requested exactly once and the result list holds
\* the responses of exactly the payloads that were not faulted, in order.
C2_UpsFaultTolerated ==
  /\ [](call = "track_ups" /\ pc # "call" =>
          /\ UpsListsMatch
          /\ (FetchEnded => AllRequestedOnce /\ idx = Len(requests) + 1))
  /\ [][call = "track_ups" /\ faulted' # faulted =>
          /\ pc' = "loop" /\ session' = "open" /\ idx' = idx + 1
          /\ tracking_results' = tracking_results
          /\ ups_failed' = Append(ups_failed, requests[idx].InquiryNumber)]_vars

C2_Witness ==
  /\ call = "track_ups" /\ pc = "fetched"
  /\ faulted = { 1 }
  /\ Len(requests) = 2
  /\ Len(tracking_results) = 1

\* C2 (as stated): in _track_ups and in _track_usps alike, a payload whose
\* decoded body signals a fault adds nothing to the result list and does not
\* end the batch: when the fetch has ended, every payload was requested once.
C2_AsClaimed ==
  /\ (call = "track_ups" /\ pc # "call") => UpsListsMatch
  /\ (call \in { "track_ups", "track_usps" } /\ faulted # {} /\ FetchEnded)
        => AllRequestedOnce

-----------------------------------------------------------------------------
\* C9: in _track_usps an exception while payload i is in flight ends the loop:
\* no later payload is requested, nothing is raised to the caller, one
\* diagnostic naming payload i is printed, and the list returned is the one
\* accumulated before payload i was requested.
C9_UspsStopsOnException ==
  /\ [](call = "track_usps" /\ caught # "" =>
          /\ FetchEnded /\ exc = "" /\ inflight = {}
          /\ \A p \in 1..Len(requests) : attempts[p] = IF p <= idx THEN 1 ELSE 0
          /\ stdout = << Failed(requests[idx]) >>
          /\ (Returned =>
                result = Some(IF simplify THEN _simplify_usps(tracking_results)
                              ELSE tracking_results)))
  /\ [][call = "track_usps" /\ caught' # "" =>
          /\ tracking_results' = tracking_results
          /\ idx' = idx
          /\ (caught = "" => pc = "await" /\ idx \in inflight)]_vars

C9_Witness ==
  /\ call = "track_usps" /\ Returned
  /\ caught # ""
  /\ idx = 2 /\ Len(requests) = 3
  /\ tracking_results # << >>

-----------------------------------------------------------------------------
\* C10: in _track_ups and _track_usps the one session is opened before the
\* first request and never reopened, a request is issued only while it is
\* open, at most one request is in flight, no payload is requested twice, and
\* the session is closed whenever the fetch has returned or raised.
C10_SessionScope ==
  /\ [](call \in { "track_ups", "track_usps" } =>
          /\ Cardinality(inflight) <= 1
          /\ (inflight # {} => session = "open")
          /\ \A p \in 1..Len(attempts) : attempts[p] <= 1
          /\ ((\E p \in 1..Len(attempts) : attempts[p] > 0) => session # "unopened")
          /\ (pc \in { "fetched", "returned", "raised" } =>
                session = "closed" /\ inflight = {}))
  /\ [][/\ (pc' = "await" /\ pc # "await" =>
              session = "open" /\ session' = "open" /\ inflight = {})
        /\ (session' # session =>
              \/ session = "unopened" /\ session' = "open"
              \/ session = "open" /\ session' = "closed")]_vars

C10_Witness ==
  /\ call = "track_ups" /\ pc = "raised" /\ exc = "ClientError"
  /\ session = "closed"
  /\ Len(requests) = 2 /\ attempts = << 1, 1 >>

-----------------------------------------------------------------------------
(* What the specification expects of the normalizers, stated without the code. *)

Ids(list) == { list[j] : j \in 1..Len(list) }

\* the package of a list whose latest activity ranks highest, the first of them
\* among equals
HighestRanked(packages) ==
  LET rank(k) == StatusRank(LatestOf(packages[k].Activity).Type)
      best == CHOOSE k \in 1..Len(packages) :
                /\ \A m \in 1..Len(packages) : rank(m) <= rank(k)
                /\ \A m \in 1..(k - 1) : rank(m) < rank(k)
  IN  LatestOf(packages[best].Activity)

\* the activity a response's record is to be built from
SelectedActivity(resp) ==
  IF resp.Package.kind = "list" THEN HighestRanked(resp.Package.items)
  ELSE LatestOf(resp.Package.items[1].Activity)

\* "COUNTRY, STATE/PROVINCE, CITY", uppercased
LocationText(country, state, city) ==
  upper(country \o << ",", " " >> \o state \o << ",", " " >> \o city)

OrPlaceholder(field) == IF field = None THEN << "-", "-", "-" >> ELSE field[1]

\* the elements of the USPS result list that are track entries
Mappings(results) == SelectSeq(results, LAMBDA e : e.kind = "mapping")

\* the records _simplify_ups has appended answer the responses in order
UpsNormalizing == call = "track_ups" /\ simplify /\ pc \in { "fetched", "returned", "raised" }

UspsNormalized == call = "track_usps" /\ simplify /\ Returned

-----------------------------------------------------------------------------
\* C1 (as stated): with simplify=True the list returned holds exactly one
\* record for each entry the carrier answered with a well-formed structure,
\* none for the others, and each record's trackingNumber is present and among
\* the identifiers asked for.
C1_AsClaimed ==
  (call \in { "track_ups", "track_usps" } /\ simplify /\ Returned) =>
        /\ Len(result[1]) = Len(answered)
        /\ \A j \in 1..Len(result[1]) :
             /\ result[1][j].trackingNumber # None
             /\ result[1][j].trackingNumber[1] \in Ids(tracking_list)
             /\ j <= Len(answered) => result[1][j].trackingNumber = Some(answered[j])

-----------------------------------------------------------------------------
\* C3 (as stated): in _simplify_ups the record of every response whose Package
\* is a list is built from the latest activity of the package of highest rank,
\* the first such package among equals, wherever the response is in the list.
C3_AsClaimed ==
  UpsNormalizing =>
    \A j \in 1..Len(stan_tracking_results) :
      tracking_results[j].Package.kind = "list" =>
        stan_tracking_results[j].checkpointStatusMessage
          = Some(SelectedActivity(tracking_results[j]).Description)

-----------------------------------------------------------------------------
\* C4 (as stated): a run of _track_ups over n payloads, f of them faulted and
\* none failing in transport, returns normally with the n-f other responses,
\* and has printed the warning exactly if 20*f > n; the empty list included.
C4_AsClaimed ==
  (call = "track_ups" /\ pc \in { "fetched", "returned", "raised" } /\ exc # "ClientError") =>
    LET n == Len(requests)
        f == Cardinality(faulted)
    IN  /\ exc # "ZeroDivisionError"
        /\ Len(tracking_results) = n - f
        /\ stdout = IF 20 * f > n THEN << Warning(f, n) >> ELSE << >>

-----------------------------------------------------------------------------
\* C5 (as stated): a status code or category that the carrier's table does not
\* hold never raises and never drops the record: _simplify_ups sets
\* trackingStatus to "Unknown", _simplify_usps sets it to None.
C5_AsClaimed ==
  /\ UpsNormalizing =>
       /\ exc # "KeyError"
       /\ \A j \in 1..Len(stan_tracking_results) :
            SelectedActivity(tracking_results[j]).Type \notin DOMAIN ups_status_codes
              => stan_tracking_results[j].trackingStatus = Some("Unknown")
  /\ UspsNormalized =>
       LET entries == Mappings(tracking_results)
       IN  /\ Len(result[1]) = Len(entries)
           /\ \A k \in 1..Len(entries) :
                (entries[k].StatusCategory = None
                   \/ entries[k].StatusCategory[1] \notin DOMAIN usps_status_codes)
                  => result[1][k].trackingStatus = None

-----------------------------------------------------------------------------
\* C6 (as stated): for both carriers a checkpointLocation that is present is
\* "COUNTRY, STATE/PROVINCE, CITY" uppercased; _simplify_ups puts the
\* placeholder for a missing part and None for a missing address,
\* _simplify_usps None when any part is missing.
C6_AsClaimed ==
  /\ UpsNormalizing =>
       \A j \in 1..Len(stan_tracking_results) :
         tracking_results[j].Package.kind = "dict" =>
           LET address == SelectedActivity(tracking_results[j]).Address
           IN  stan_tracking_results[j].checkpointLocation =
                 IF address = None THEN None
                 ELSE Some(LocationText(OrPlaceholder(address[1].CountryCode),
                                        OrPlaceholder(address[1].StateProvinceCode),
                                        OrPlaceholder(address[1].City)))
  /\ UspsNormalized =>
       LET entries == Mappings(tracking_results)
       IN  \A k \in 1..Min(Len(entries), Len(result[1])) :
             result[1][k].checkpointLocation =
               IF \/ entries[k].TrackSummary = None
                  \/ entries[k].TrackSummary[1].EventCity = None
                  \/ entries[k].TrackSummary[1].EventState = None
               THEN None
               ELSE Some(LocationText(<< "U", "S" >>,
                                      entries[k].TrackSummary[1].EventState[1],
                                      entries[k].TrackSummary[1].EventCity[1]))

-----------------------------------------------------------------------------
\* C8 (as stated): in _track_usps every element of the result list is one
\* track entry, a mapping carrying one of the requested identifiers under
\* "@ID", and the payloads processed so far have added no more elements than
\* they carry identifiers.
C8_AsClaimed ==
  (call = "track_usps" /\ pc # "call") =>
    /\ \A j \in 1..Len(tracking_results) :
         /\ tracking_results[j].kind = "mapping"
         /\ tracking_results[j].ID # None
         /\ tracking_results[j].ID[1] \in Ids(tracking_list)
    /\ Len(tracking_results) <= Len(Concat([p \in 1..(idx - 1) |-> requests[p].ids]))

====
